---- MODULE Spec2Model ----
(***************************************************************************)
(* Model of updater/bootloader.c: the boot control message kept in page 1  *)
(* of the misc partition (get_bootloader_message, set_bootloader_message)  *)
(* and the two-pass, header-last staging of an update image on the cache   *)
(* partition (write_update_for_bootloader).                                *)
(*                                                                         *)
(* The MTD partition primitives (mtdutils) are external to the file: they  *)
(* are modelled at their interface, every call free to fail.  Sizes are    *)
(* counted in abstract cells instead of bytes.  The set of bad blocks of   *)
(* the cache partition is fixed for the length of a call.  The log buffer  *)
(* is kept byte by byte, CellBytes bytes to a cell of storage.             *)
(* SpecBitmaps is the update writer called with a wider range of bitmap    *)
(* sizes on a partition with no bad block.                                 *)
(***************************************************************************)
EXTENDS Integers, Sequences, FiniteSets, TLC

\* ------------------------------------------------------------------------
\* Bounds of the model
\* ------------------------------------------------------------------------
\* largest page size (write_size) the misc partition may report, in cells
MaxPage == 3
\* number of calls the caller makes on the misc partition in one behaviour
MaxCalls == 2

\* ------------------------------------------------------------------------
\* Program constants
\* ------------------------------------------------------------------------
MISC_PAGES == 3
MISC_COMMAND_PAGE == 1
\* sizeof(struct bootloader_message), in cells (declared in bootloader.h)
RecordSize == 3

Bytes == 0..1
Records == [1..RecordSize -> Bytes]
PageSizes == 1..MaxPage

VARIABLES
    \* ---- misc partition and the boot message calls ----
    ps,        \* write_size reported by mtd_partition_info for misc
    misc,      \* content of the first MISC_PAGES pages of misc, on storage
    misc0,     \* misc as it was when the running call started
    mop,       \* function running: "none", "get", "set"
    mpc,       \* position in the running function
    min,       \* *in of set_bootloader_message
    mout,      \* *out of get_bootloader_message (the caller's record)
    mout0,     \* *out as it was when the running call started
    data,      \* the local buffer data[size]
    rd,        \* r, the result of mtd_read_data
    rsess,     \* read session: "none", "open", "closed"
    wsess,     \* write session on misc: "none", "open", "closed"
    mpend,     \* bytes accepted by the write session, not yet on storage
    mret,      \* return value of the call: "none", 0, -1
    lastSet,   \* <<r>> when the latest call that touched misc was a
               \* successful set_bootloader_message(r), else <<>>
    calls      \* calls started so far

miscVars == <<ps, misc, misc0, mop, mpc, min, mout, mout0, data, rd, rsess,
              wsess, mpend, mret, lastSet, calls>>

VARIABLES
    \* ---- storage ----
    bad,        \* blocks of the cache partition that are bad
    disk,       \* content of every block on storage
    disk0,      \* disk before the call
    \* ---- arguments ----
    update_length, bitmap_width, bitmap_height, bitmap_bpp,
    busy_null,  \* busy_bitmap == NULL
    fail_null,  \* fail_bitmap == NULL
    have_log,   \* log_filename != NULL
    \* ---- write session (MtdWriteContext) ----
    sess,       \* "none", "open", "closed"
    pass,       \* number of write sessions opened so far
    pos,        \* block the session writes next
    buf,        \* cells accepted and not yet written (stored)
    known,      \* bad blocks the session has skipped
    \* ---- locals ----
    wpc, header, image_start_pos, busy_start_pos, fail_start_pos,
    wret,       \* return value: "none", 0, -1
    \* ---- history of the call ----
    log_failed, \* the write of the log block failed (line 295)
    sentinel,   \* some mtd_erase_blocks returned -1
    failed,     \* some primitive other than the log write failed
    fail_step,  \* the first call other than an erase-align and the log
                \* write that failed: where the function stood, or "none"
    real_hdr,   \* the write of the real header (line 266) was issued
    verify_pos, \* what mtd_erase_blocks returned at line 304, -2 before
    busy_req,   \* length passed to mtd_write_data at line 229, -1 before
    fail_req,   \* length passed to mtd_write_data at line 241, -1 before
    \* ---- the log ----
    log_src,    \* bytes of the log file when line 284 opens it
    log         \* the buffer char* log of line 283 as line 295 writes it

updVars == <<bad, disk, disk0, update_length, bitmap_width,
             bitmap_height, bitmap_bpp, busy_null, fail_null, have_log,
             sess, pass, pos, buf, known, wpc, header, image_start_pos,
             busy_start_pos, fail_start_pos, wret, log_failed, sentinel,
             failed, fail_step, real_hdr, verify_pos, busy_req, fail_req,
             log_src, log>>

argVars == <<update_length, bitmap_width, bitmap_height, bitmap_bpp,
             busy_null, fail_null, have_log, disk0, bad>>

vars == <<miscVars, updVars>>

\* size = write_size * MISC_PAGES (lines 59, 90)
MiscSize == ps * MISC_PAGES
\* offset of the record in data, 0-based: write_size * MISC_COMMAND_PAGE
CmdOff == ps * MISC_COMMAND_PAGE

Page(s, k) == SubSeq(s, k * ps + 1, (k + 1) * ps)

Fill(n, b) == [i \in 1..n |-> b]

InitMisc ==
    /\ ps \in PageSizes
    /\ \E a, b, c \in Bytes :
          misc = Fill(ps, a) \o Fill(ps, b) \o Fill(ps, c)
    /\ misc0 = misc
    /\ mop = "none"
    /\ mpc = "idle"
    /\ min = Fill(RecordSize, 0)
    /\ mout = Fill(RecordSize, 0)
    /\ mout0 = mout
    /\ data = <<>>
    /\ rd = 0
    /\ rsess = "none"
    /\ wsess = "none"
    /\ mpend = <<>>
    /\ mret = "none"
    /\ lastSet = <<>>
    /\ calls = 0

\* The caller invokes get_bootloader_message(out).
CallGet ==
    /\ mpc \in {"idle", "ret"}
    /\ calls < MaxCalls
    /\ calls' = calls + 1
    /\ mop' = "get"
    /\ mpc' = "find"
    /\ \E b \in Bytes : mout' = Fill(RecordSize, b)
    /\ mout0' = mout'
    /\ misc0' = misc
    /\ data' = <<>>
    /\ rd' = 0
    /\ rsess' = "none"
    /\ wsess' = "none"
    /\ mpend' = <<>>
    /\ mret' = "none"
    /\ UNCHANGED <<ps, misc, min, lastSet>>
    /\ UNCHANGED updVars

\* The caller invokes set_bootloader_message(in).
CallSet ==
    /\ mpc \in {"idle", "ret"}
    /\ calls < MaxCalls
    /\ calls' = calls + 1
    /\ mop' = "set"
    /\ mpc' = "find"
    /\ min' \in Records
    /\ misc0' = misc
    /\ mout0' = mout
    /\ data' = <<>>
    /\ rd' = 0
    /\ rsess' = "none"
    /\ wsess' = "none"
    /\ mpend' = <<>>
    /\ mret' = "none"
    /\ UNCHANGED <<ps, misc, mout, lastSet>>
    /\ UNCHANGED updVars

\* return from the running call
MiscReturn(v) ==
    /\ mpc' = "ret"
    /\ mret' = v

\* lines 47-51 / 78-82: mtd_find_partition_by_name, mtd_partition_info
MiscFind(f) ==
    /\ mop = f
    /\ mpc = "find"
    /\ \/ MiscReturn(-1)
       \/ mpc' = "ropen" /\ mret' = mret
    /\ UNCHANGED <<ps, misc, misc0, mop, min, mout, mout0, data, rd, rsess,
                   wsess, mpend, lastSet, calls>>
    /\ UNCHANGED updVars

\* lines 53-57 / 84-88: mtd_read_partition
MiscOpenRead(f) ==
    /\ mop = f
    /\ mpc = "ropen"
    /\ \/ MiscReturn(-1) /\ rsess' = rsess
       \/ mpc' = "read" /\ mret' = mret /\ rsess' = "open"
    /\ UNCHANGED <<ps, misc, misc0, mop, min, mout, mout0, data, rd,
                   wsess, mpend, lastSet, calls>>
    /\ UNCHANGED updVars

\* what mtd_read_data may return for a request of n bytes: n, or an error
\* or short count
ReadResults(n) == {-1, n - 1, n}

\* lines 59-62 / 90-93: char data[size]; r = mtd_read_data(read, data, size)
MiscRead(f) ==
    /\ mop = f
    /\ mpc = "read"
    /\ \E r \in ReadResults(MiscSize) :
          /\ rd' = r
          /\ data' = [i \in 1..MiscSize |-> IF i <= r THEN misc[i] ELSE 0]
    /\ mpc' = "rclose"
    /\ UNCHANGED <<ps, misc, misc0, mop, min, mout, mout0, rsess,
                   wsess, mpend, mret, lastSet, calls>>
    /\ UNCHANGED updVars

\* MiscReadClose without the test of line 64 / 95: r is not looked at
MiscReadClose_Unchecked(f) ==
    /\ mop = f
    /\ mpc = "rclose"
    /\ rsess' = "closed"
    /\ mpc' = "copy" /\ mret' = mret
    /\ UNCHANGED <<ps, misc, misc0, mop, min, mout, mout0, data, rd,
                   wsess, mpend, lastSet, calls>>
    /\ UNCHANGED updVars

\* MiscReadClose with the test r < 0 in place of r != size
MiscReadClose_ErrorOnly(f) ==
    /\ mop = f
    /\ mpc = "rclose"
    /\ rsess' = "closed"
    /\ IF rd < 0
         THEN MiscReturn(-1)
         ELSE mpc' = "copy" /\ mret' = mret
    /\ UNCHANGED <<ps, misc, misc0, mop, min, mout, mout0, data, rd,
                   wsess, mpend, lastSet, calls>>
    /\ UNCHANGED updVars

\* lines 63-64 / 94-95: mtd_read_close(read); if (r != size) return -1
MiscReadClose(f) ==
    /\ mop = f
    /\ mpc = "rclose"
    /\ rsess' = "closed"
    /\ IF rd # MiscSize
         THEN MiscReturn(-1)
         ELSE mpc' = "copy" /\ mret' = mret
    /\ UNCHANGED <<ps, misc, misc0, mop, min, mout, mout0, data, rd,
                   wsess, mpend, lastSet, calls>>
    /\ UNCHANGED updVars

Get_find == MiscFind("get")
Get_open == MiscOpenRead("get")
Get_read == MiscRead("get")
Get_close == MiscReadClose("get")

\* line 72-73: memcpy(out, &data[write_size * MISC_COMMAND_PAGE],
\* sizeof(*out)); return 0.  Bytes read past the end of data[size] are
\* whatever the stack holds.
Get_copy ==
    /\ mop = "get"
    /\ mpc = "copy"
    /\ \E junk \in Records :
          mout' = [i \in 1..RecordSize |->
                      IF CmdOff + i <= MiscSize THEN data[CmdOff + i]
                                                ELSE junk[i]]
    /\ MiscReturn(0)
    /\ UNCHANGED <<ps, misc, misc0, mop, min, mout0, data, rd, rsess,
                   wsess, mpend, lastSet, calls>>
    /\ UNCHANGED updVars

Set_find == MiscFind("set")
Set_open == MiscOpenRead("set")
Set_read == MiscRead("set")
Set_close == MiscReadClose("set")

\* line 97: memcpy(&data[write_size * MISC_COMMAND_PAGE], in, sizeof(*in)).
\* The copy is not bounded by size: bytes that fall past the end of
\* data[size] overwrite the stack, after which the process may die or go on.
Set_copy ==
    /\ mop = "set"
    /\ mpc = "copy"
    /\ data' = [i \in 1..MiscSize |->
                   IF i > CmdOff /\ i <= CmdOff + RecordSize
                     THEN min[i - CmdOff] ELSE data[i]]
    /\ \/ mpc' = "wopen"
       \/ CmdOff + RecordSize > MiscSize /\ mpc' = "crashed"
    /\ UNCHANGED <<ps, misc, misc0, mop, min, mout, mout0, rd, rsess,
                   wsess, mpend, mret, lastSet, calls>>
    /\ UNCHANGED updVars

\* lines 105-109: mtd_write_partition
Set_wopen ==
    /\ mop = "set"
    /\ mpc = "wopen"
    /\ \/ MiscReturn(-1) /\ wsess' = wsess
       \/ mpc' = "write" /\ mret' = mret /\ wsess' = "open"
    /\ UNCHANGED <<ps, misc, misc0, mop, min, mout, mout0, data, rd, rsess,
                   mpend, lastSet, calls>>
    /\ UNCHANGED updVars

\* lines 110-114: mtd_write_data(write, data, size) != size.  The session
\* buffers what it accepts; a failed write accepted only part of it.
Set_write ==
    /\ mop = "set"
    /\ mpc = "write"
    /\ \/ mpend' = data /\ mpc' = "wclose"
       \/ \E k \in 0..(MiscSize - 1) :
             mpend' = SubSeq(data, 1, k) /\ mpc' = "wabort"
    /\ UNCHANGED <<ps, misc, misc0, mop, min, mout, mout0, data, rd, rsess,
                   wsess, mret, lastSet, calls>>
    /\ UNCHANGED updVars

\* storage after the session's pending bytes p are flushed over it
Flushed(p) == [i \in 1..MiscSize |-> IF i <= Len(p) THEN p[i] ELSE misc[i]]

\* lines 112-113: mtd_write_close(write); return -1.  Closing writes out
\* what the session holds, or fails to.
Set_wabort ==
    /\ mop = "set"
    /\ mpc = "wabort"
    /\ wsess' = "closed"
    /\ \/ misc' = Flushed(mpend)
       \/ misc' = misc
    /\ lastSet' = IF misc' = misc THEN lastSet ELSE <<>>
    /\ mpend' = <<>>
    /\ MiscReturn(-1)
    /\ UNCHANGED <<ps, misc0, mop, min, mout, mout0, data, rd, rsess, calls>>
    /\ UNCHANGED updVars

\* Set_wclose with the result of mtd_write_close unused
Set_wclose_Unchecked ==
    /\ mop = "set"
    /\ mpc = "wclose"
    /\ wsess' = "closed"
    /\ mpend' = <<>>
    /\ \/ misc' = Flushed(mpend)
       \/ \E k \in 0..(MiscSize - 1) : misc' = Flushed(SubSeq(mpend, 1, k))
    /\ lastSet' = <<min>>
    /\ MiscReturn(0)
    /\ UNCHANGED <<ps, misc0, mop, min, mout, mout0, data, rd, rsess, calls>>
    /\ UNCHANGED updVars

\* lines 115-121: if (mtd_write_close(write)) return -1; ... return 0
Set_wclose ==
    /\ mop = "set"
    /\ mpc = "wclose"
    /\ wsess' = "closed"
    /\ mpend' = <<>>
    /\ \/ /\ misc' = Flushed(mpend)
          /\ lastSet' = <<min>>
          /\ MiscReturn(0)
       \/ /\ \E k \in 0..(MiscSize - 1) : misc' = Flushed(SubSeq(mpend, 1, k))
          /\ lastSet' = IF misc' = misc THEN lastSet ELSE <<>>
          /\ MiscReturn(-1)
    /\ UNCHANGED <<ps, misc0, mop, min, mout, mout0, data, rd, rsess, calls>>
    /\ UNCHANGED updVars

NextMisc ==
    \/ CallGet \/ CallSet
    \/ Get_find \/ Get_open \/ Get_read \/ Get_close \/ Get_copy
    \/ Set_find \/ Set_open \/ Set_read \/ Set_close \/ Set_copy
    \/ Set_wopen \/ Set_write \/ Set_wabort \/ Set_wclose



\* ========================================================================
\* The cache partition and write_update_for_bootloader
\* ========================================================================

\* ---- bounds ----
\* erase blocks of the cache partition
NBlocks == 6
\* erase_size of the cache partition, in cells
EraseSize == 2
\* largest update_length
MaxUpdate == 2
\* largest bitmap_width
MaxWidth == 1

Blocks == 0..(NBlocks - 1)
BppSet == {1, 16}

\* struct update_header: the magic and the (offset, length) pairs
ZeroHeader ==
    [magic |-> FALSE, image_offset |-> 0, image_length |-> 0,
     busy_bitmap_offset |-> 0, busy_bitmap_length |-> 0,
     fail_bitmap_offset |-> 0, fail_bitmap_length |-> 0]

\* One cell of storage: k is what the cell holds ("Z" zero, "H" header
\* with the update magic, "M" first byte of the magic, "P"/"B"/"F" cell i
\* of the payload / busy bitmap / fail bitmap, "L" log block, "G" bytes of
\* unknown origin, "O" header of an earlier update, "X" earlier data,
\* "E" erased), h the header struct of an "H" cell.
Cell(k, i) == [k |-> k, i |-> i, h |-> ZeroHeader]
ZeroCell == Cell("Z", 0)
\* the bytes of a struct update_header as one cell
HeaderCell(hd) == [k |-> IF hd.magic THEN "H" ELSE "Z", i |-> 0, h |-> hd]
DataCells(k, n) == [j \in 1..n |-> Cell(k, j)]
FullBlock(k) == [j \in 1..EraseSize |-> Cell(k, 0)]

\* ------------------------------------------------------------------------
\* The partition primitives on the write session.  A context is the part
\* of the state a primitive reads and changes.
\* ------------------------------------------------------------------------
Ctx == [pos |-> pos, buf |-> buf, known |-> known, disk |-> disk,
        ok |-> TRUE]

Min(S) == CHOOSE x \in S : \A y \in S : x <= y

\* write_block: write one block at the session's position, skipping the
\* bad blocks; fails when the partition has no good block left.
WriteBlock(c, blk) ==
    LET good == {b \in Blocks : b >= c.pos /\ b \notin bad}
        seen(t) == c.known \cup {b \in bad : b >= c.pos /\ b < t}
    IN  IF good = {}
          THEN [c EXCEPT !.ok = FALSE, !.known = seen(NBlocks),
                         !.pos = NBlocks]
          ELSE [c EXCEPT !.ok = TRUE, !.known = seen(Min(good)),
                         !.pos = Min(good) + 1,
                         !.disk = [c.disk EXCEPT ![Min(good)] = blk]]

Pad(b) == b \o [j \in 1..(EraseSize - Len(b)) |-> ZeroCell]

\* mtd_write_data(ctx, cells): cells are coalesced into blocks, every
\* completed block is written.  ok = FALSE is a return other than len.
RECURSIVE WriteCells(_, _)
WriteCells(c, cells) ==
    IF cells = <<>> THEN c
    ELSE LET b == Append(c.buf, Head(cells))
         IN  IF Len(b) < EraseSize
               THEN WriteCells([c EXCEPT !.buf = b], Tail(cells))
               ELSE LET o == WriteBlock(c, b)
                    IN  IF o.ok
                          THEN WriteCells([o EXCEPT !.buf = <<>>],
                                          Tail(cells))
                          ELSE [o EXCEPT !.buf = b]

MtdWriteData(c, cells) ==
    {WriteCells(c, cells), [c EXCEPT !.ok = FALSE]}

\* mtd_erase_blocks(ctx, 0): zero-pad and write the pending cells to get
\* to a block boundary.  ok = FALSE is the return value -1.
MtdEraseBlocks(c) ==
    LET o == WriteBlock(c, Pad(c.buf))
    IN  {IF c.buf = <<>> THEN c
         ELSE IF o.ok THEN [o EXCEPT !.buf = <<>>] ELSE o,
         [c EXCEPT !.ok = FALSE]}

\* the offset mtd_erase_blocks returns
ErasePos(o) == IF o.ok THEN o.pos * EraseSize ELSE -1

\* mtd_write_close(ctx): write the pending cells, close.  ok = FALSE is a
\* non-zero return.
MtdWriteClose(c) ==
    MtdEraseBlocks(c) \cup {[o EXCEPT !.ok = FALSE] : o \in MtdEraseBlocks(c)}

\* mtd_find_write_start(ctx, p): p moved past the bad blocks the session
\* skipped at p
MtdFindWriteStart(kn, p) ==
    IF p < 0 \/ p % EraseSize # 0 THEN p
    ELSE LET cand == {b \in (p \div EraseSize)..NBlocks : b \notin kn}
         IN  Min(cand) * EraseSize

\* the state after a primitive left the context o
Apply(o) ==
    /\ pos' = o.pos
    /\ buf' = o.buf
    /\ known' = o.known
    /\ disk' = o.disk

ctxVars == <<pos, buf, known, disk>>


\* line 224 dividing before adding: bits that do not fill a byte are lost
bitmap_length_Floor == (bitmap_bpp \div 8) * bitmap_width * bitmap_height

\* int bitmap_length = (bitmap_bpp + 7) / 8 * bitmap_width * bitmap_height
\* (line 224)
bitmap_length == ((bitmap_bpp + 7) \div 8) * bitmap_width * bitmap_height

\* a blank partition
BlankDisk == [b \in Blocks |-> FullBlock("E")]
\* a partition holding an earlier update, its header in the first good
\* block
StagedDisk(B) ==
    [b \in Blocks |->
        IF b \notin B /\ \A c \in Blocks : c < b => c \in B
          THEN Pad(<<Cell("O", 0)>>)
          ELSE FullBlock("X")]

InitUpdate ==
    /\ bad \in {{}} \cup {{b} : b \in Blocks}
    /\ disk = StagedDisk(bad)
    /\ disk0 = disk
    /\ update_length \in 0..MaxUpdate
    /\ bitmap_width \in 0..MaxWidth
    /\ bitmap_height = 1
    /\ bitmap_bpp \in BppSet
    /\ busy_null \in BOOLEAN
    /\ fail_null \in BOOLEAN
    /\ have_log \in BOOLEAN
    /\ sess = "none"
    /\ pass = 0
    /\ pos = 0
    /\ buf = <<>>
    /\ known = {}
    /\ wpc = "find"
    /\ header = ZeroHeader
    /\ image_start_pos = 0
    /\ busy_start_pos = 0
    /\ fail_start_pos = 0
    /\ wret = "none"
    /\ log_failed = FALSE
    /\ sentinel = FALSE
    /\ failed = FALSE
    /\ fail_step = "none"
    /\ real_hdr = FALSE
    /\ verify_pos = -2
    /\ busy_req = -1
    /\ fail_req = -1
    /\ log_src = <<>>
    /\ log = <<>>

posVars == <<image_start_pos, busy_start_pos, fail_start_pos>>
reqVars == <<busy_req, fail_req>>
logVars == <<log_src, log>>
histVars == <<log_failed, real_hdr, verify_pos>>

\* history: the primitive left with outcome o
Outcome(o) ==
    /\ failed' = (failed \/ ~o.ok) /\ sentinel' = sentinel
    /\ fail_step' = IF ~o.ok /\ fail_step = "none" THEN wpc ELSE fail_step
EraseOutcome(o) ==
    /\ failed' = (failed \/ ~o.ok) /\ sentinel' = (sentinel \/ ~o.ok)
    /\ fail_step' = fail_step
NoOutcome == UNCHANGED <<failed, sentinel, fail_step>>
Failure ==
    /\ failed' = TRUE /\ sentinel' = sentinel
    /\ fail_step' = IF fail_step = "none" THEN wpc ELSE fail_step

\* lines 160-164: mtd_find_partition_by_name(CACHE_NAME)
W_find ==
    /\ wpc = "find"
    /\ \/ wpc' = "ret" /\ wret' = -1 /\ Failure
       \/ wpc' = "open1" /\ wret' = wret /\ NoOutcome
    /\ UNCHANGED <<ctxVars, argVars, posVars, histVars, sess, pass, header>>
    /\ UNCHANGED <<miscVars, reqVars, logVars>>

\* lines 166-170: write = mtd_write_partition(part)
W_open1 ==
    /\ wpc = "open1"
    /\ \/ /\ wpc' = "ret" /\ wret' = -1 /\ Failure
          /\ UNCHANGED <<sess, pass, pos, buf, known>>
       \/ /\ wpc' = "zhdr" /\ wret' = wret /\ NoOutcome
          /\ sess' = "open" /\ pass' = pass + 1
          /\ pos' = 0 /\ buf' = <<>> /\ known' = {}
    /\ UNCHANGED <<disk, argVars, posVars, histVars, header>>
    /\ UNCHANGED <<miscVars, reqVars, logVars>>

\* W_zero_header with line 190 moved before line 180: the placeholder
\* header is written with the magic already in it
W_zero_header_MagicFirst ==
    /\ wpc = "zhdr"
    /\ \E o \in MtdWriteData(Ctx,
                <<HeaderCell([ZeroHeader EXCEPT !.magic = TRUE])>>) :
          /\ Apply(o) /\ Outcome(o)
          /\ header' = [ZeroHeader EXCEPT !.magic = TRUE]
          /\ wpc' = IF ~o.ok THEN "abort"
                    ELSE IF have_log THEN "logerase" ELSE "imgerase"
    /\ UNCHANGED <<argVars, posVars, histVars, sess, pass, wret>>
    /\ UNCHANGED <<miscVars, reqVars, logVars>>

\* lines 177-192: memset(&header, 0, ...); write the zero header; on
\* success put the magic into the header in memory
W_zero_header ==
    /\ wpc = "zhdr"
    /\ \E o \in MtdWriteData(Ctx, <<HeaderCell(ZeroHeader)>>) :
          /\ Apply(o) /\ Outcome(o)
          /\ IF o.ok
               THEN /\ header' = [ZeroHeader EXCEPT !.magic = TRUE]
                    /\ wpc' = IF have_log THEN "logerase" ELSE "imgerase"
               ELSE /\ header' = ZeroHeader
                    /\ wpc' = "abort"
    /\ UNCHANGED <<argVars, posVars, histVars, sess, pass, wret>>
    /\ UNCHANGED <<miscVars, reqVars, logVars>>

\* the failure exits (lines 182-183, 204-205, 214-215, 231-232, 243-244,
\* 268-269, 277-278, 306-307): mtd_write_close(write); return -1.
\* Closing a session that is already closed has no defined result.
W_abort ==
    /\ wpc = "abort"
    /\ IF sess = "open"
         THEN /\ \E o \in MtdWriteClose(Ctx) : Apply(o)
              /\ wpc' = "ret" /\ wret' = -1
         ELSE /\ UNCHANGED ctxVars
              /\ \/ wpc' = "ret" /\ wret' = -1
                 \/ wpc' = "crashed" /\ wret' = wret
    /\ sess' = "closed"
    /\ NoOutcome
    /\ UNCHANGED <<argVars, posVars, histVars, pass, header>>
    /\ UNCHANGED <<miscVars, reqVars, logVars>>

\* line 200: mtd_erase_blocks(write, 0), its result unused
W_log_erase ==
    /\ wpc = "logerase"
    /\ \E o \in MtdEraseBlocks(Ctx) : Apply(o) /\ EraseOutcome(o)
    /\ wpc' = "logbyte"
    /\ UNCHANGED <<argVars, posVars, histVars, sess, pass, header, wret>>
    /\ UNCHANGED <<miscVars, reqVars, logVars>>

\* W_log_byte writing header_size bytes of the header instead of 1
W_log_byte_WholeHeader ==
    /\ wpc = "logbyte"
    /\ \E o \in MtdWriteData(Ctx, <<HeaderCell(header)>>) :
          /\ Apply(o) /\ Outcome(o)
          /\ wpc' = IF o.ok THEN "imgerase" ELSE "abort"
    /\ UNCHANGED <<argVars, posVars, histVars, sess, pass, header, wret>>
    /\ UNCHANGED <<miscVars, reqVars, logVars>>

\* lines 201-206: one byte of the header reserves the log block
W_log_byte ==
    /\ wpc = "logbyte"
    /\ \E o \in MtdWriteData(Ctx, <<Cell("M", 0)>>) :
          /\ Apply(o) /\ Outcome(o)
          /\ wpc' = IF o.ok THEN "imgerase" ELSE "abort"
    /\ UNCHANGED <<argVars, posVars, histVars, sess, pass, header, wret>>
    /\ UNCHANGED <<miscVars, reqVars, logVars>>

\* line 209: off_t image_start_pos = mtd_erase_blocks(write, 0)
W_image_erase ==
    /\ wpc = "imgerase"
    /\ \E o \in MtdEraseBlocks(Ctx) :
          /\ Apply(o) /\ EraseOutcome(o)
          /\ image_start_pos' = ErasePos(o)
    /\ wpc' = "imgwrite"
    /\ UNCHANGED <<argVars, busy_start_pos, fail_start_pos, histVars, sess,
                   pass, header, wret>>
    /\ UNCHANGED <<miscVars, reqVars, logVars>>

\* lines 210-216: the test reads header.image_offset, which line 218 sets
\* only later
W_image_write ==
    /\ wpc = "imgwrite"
    /\ header' = [header EXCEPT !.image_length = update_length]
    /\ IF header.image_offset = -1
         THEN /\ wpc' = "abort"
              /\ NoOutcome
              /\ UNCHANGED ctxVars
         ELSE \E o \in MtdWriteData(Ctx, DataCells("P", update_length)) :
                 /\ Apply(o) /\ Outcome(o)
                 /\ wpc' = IF o.ok THEN "busyerase" ELSE "abort"
    /\ UNCHANGED <<argVars, posVars, histVars, sess, pass, wret>>
    /\ UNCHANGED <<miscVars, reqVars, logVars>>

\* lines 217-224: busy_start_pos = mtd_erase_blocks(write, 0);
\* header.image_offset = mtd_find_write_start(write, image_start_pos)
W_busy_erase ==
    /\ wpc = "busyerase"
    /\ \E o \in MtdEraseBlocks(Ctx) :
          /\ Apply(o) /\ EraseOutcome(o)
          /\ busy_start_pos' = ErasePos(o)
          /\ header' = [header EXCEPT !.image_offset =
                           MtdFindWriteStart(o.known, image_start_pos)]
    /\ wpc' = "busywrite"
    /\ UNCHANGED <<argVars, image_start_pos, fail_start_pos, histVars, sess,
                   pass, wret>>
    /\ UNCHANGED <<miscVars, reqVars, logVars>>

\* mtd_write_data(write, bitmap, bitmap_length) for a bitmap argument of
\* kind k: a NULL bitmap with a positive length is read through the null
\* pointer, so bytes of unknown origin are written (or the process dies,
\* see the callers).
BitmapWrite(isNull, k) ==
    IF isNull /\ bitmap_length > 0
      THEN MtdWriteData(Ctx, DataCells("G", bitmap_length))
      ELSE MtdWriteData(Ctx, DataCells(k, bitmap_length))

\* lines 226-233: length and write of the busy bitmap; the test reads
\* header.busy_bitmap_offset, which line 237 sets only later
W_busy_write ==
    /\ wpc = "busywrite"
    /\ header' = [header EXCEPT !.busy_bitmap_length =
                     IF ~busy_null THEN bitmap_length ELSE 0]
    /\ IF header.busy_bitmap_offset = -1
         THEN /\ wpc' = "abort"
              /\ NoOutcome
              /\ UNCHANGED ctxVars
         ELSE \/ \E o \in BitmapWrite(busy_null, "B") :
                    /\ Apply(o) /\ Outcome(o)
                    /\ wpc' = IF o.ok THEN "failerase" ELSE "abort"
              \/ /\ busy_null /\ bitmap_length > 0
                 /\ wpc' = "crashed"
                 /\ NoOutcome
                 /\ UNCHANGED ctxVars
    /\ busy_req' = IF header.busy_bitmap_offset = -1 THEN busy_req
                   ELSE bitmap_length
    /\ UNCHANGED <<argVars, posVars, histVars, sess, pass, wret>>
    /\ UNCHANGED <<miscVars, fail_req, logVars>>

\* lines 235-237: fail_start_pos = mtd_erase_blocks(write, 0);
\* header.busy_bitmap_offset = mtd_find_write_start(write, busy_start_pos)
W_fail_erase ==
    /\ wpc = "failerase"
    /\ \E o \in MtdEraseBlocks(Ctx) :
          /\ Apply(o) /\ EraseOutcome(o)
          /\ fail_start_pos' = ErasePos(o)
          /\ header' = [header EXCEPT !.busy_bitmap_offset =
                           MtdFindWriteStart(o.known, busy_start_pos)]
    /\ wpc' = "failwrite"
    /\ UNCHANGED <<argVars, image_start_pos, busy_start_pos, histVars, sess,
                   pass, wret>>
    /\ UNCHANGED <<miscVars, reqVars, logVars>>

\* lines 239-245: length and write of the fail bitmap
W_fail_write ==
    /\ wpc = "failwrite"
    /\ header' = [header EXCEPT !.fail_bitmap_length =
                     IF ~fail_null THEN bitmap_length ELSE 0]
    /\ IF header.fail_bitmap_offset = -1
         THEN /\ wpc' = "abort"
              /\ NoOutcome
              /\ UNCHANGED ctxVars
         ELSE \/ \E o \in BitmapWrite(fail_null, "F") :
                    /\ Apply(o) /\ Outcome(o)
                    /\ wpc' = IF o.ok THEN "finerase" ELSE "abort"
              \/ /\ fail_null /\ bitmap_length > 0
                 /\ wpc' = "crashed"
                 /\ NoOutcome
                 /\ UNCHANGED ctxVars
    /\ fail_req' = IF header.fail_bitmap_offset = -1 THEN fail_req
                   ELSE bitmap_length
    /\ UNCHANGED <<argVars, posVars, histVars, sess, pass, wret>>
    /\ UNCHANGED <<miscVars, busy_req, logVars>>

\* lines 247-249: mtd_erase_blocks(write, 0);
\* header.fail_bitmap_offset = mtd_find_write_start(write, fail_start_pos)
W_final_erase ==
    /\ wpc = "finerase"
    /\ \E o \in MtdEraseBlocks(Ctx) :
          /\ Apply(o) /\ EraseOutcome(o)
          /\ header' = [header EXCEPT !.fail_bitmap_offset =
                           MtdFindWriteStart(o.known, fail_start_pos)]
    /\ wpc' = "close1"
    /\ UNCHANGED <<argVars, posVars, histVars, sess, pass, wret>>
    /\ UNCHANGED <<miscVars, reqVars, logVars>>

\* W_close1 with the result of mtd_write_close unused
W_close1_Unchecked ==
    /\ wpc = "close1"
    /\ \E o \in MtdWriteClose(Ctx) : Apply(o) /\ Outcome(o)
    /\ wpc' = "open2" /\ wret' = wret
    /\ sess' = "closed"
    /\ UNCHANGED <<argVars, posVars, histVars, pass, header>>
    /\ UNCHANGED <<miscVars, reqVars, logVars>>

\* lines 255-258: if (mtd_write_close(write)) return -1
W_close1 ==
    /\ wpc = "close1"
    /\ \E o \in MtdWriteClose(Ctx) :
          /\ Apply(o) /\ Outcome(o)
          /\ IF o.ok THEN wpc' = "open2" /\ wret' = wret
                     ELSE wpc' = "ret" /\ wret' = -1
    /\ sess' = "closed"
    /\ UNCHANGED <<argVars, posVars, histVars, pass, header>>
    /\ UNCHANGED <<miscVars, reqVars, logVars>>

\* lines 260-264: write = mtd_write_partition(part), from the start
W_open2 ==
    /\ wpc = "open2"
    /\ \/ /\ wpc' = "ret" /\ wret' = -1 /\ Failure
          /\ UNCHANGED <<sess, pass, pos, buf, known>>
       \/ /\ wpc' = "rhdr" /\ wret' = wret /\ NoOutcome
          /\ sess' = "open" /\ pass' = pass + 1
          /\ pos' = 0 /\ buf' = <<>> /\ known' = {}
    /\ UNCHANGED <<disk, argVars, posVars, histVars, header>>
    /\ UNCHANGED <<miscVars, reqVars, logVars>>

\* lines 266-270: write the real header
W_real_header ==
    /\ wpc = "rhdr"
    /\ \E o \in MtdWriteData(Ctx, <<HeaderCell(header)>>) :
          /\ Apply(o) /\ Outcome(o)
          /\ wpc' = IF ~o.ok THEN "abort"
                    ELSE IF have_log THEN "loginfo" ELSE "verify"
    /\ real_hdr' = TRUE
    /\ UNCHANGED <<argVars, posVars, log_failed, verify_pos, sess, pass,
                   header, wret>>
    /\ UNCHANGED <<miscVars, reqVars, logVars>>

\* lines 272-279: mtd_partition_info(part, NULL, &erase_size, NULL) != 0
W_log_info ==
    /\ wpc = "loginfo"
    /\ \/ wpc' = "abort" /\ Failure
       \/ wpc' = "logalign" /\ NoOutcome
    /\ UNCHANGED <<ctxVars, argVars, posVars, histVars, sess, pass, header,
                   wret>>
    /\ UNCHANGED <<miscVars, reqVars, logVars>>

\* line 280: mtd_erase_blocks(write, 0), its result unused
W_log_align ==
    /\ wpc = "logalign"
    /\ \E o \in MtdEraseBlocks(Ctx) : Apply(o) /\ EraseOutcome(o)
    /\ wpc' = "logwrite"
    /\ UNCHANGED <<argVars, posVars, histVars, sess, pass, header, wret>>
    /\ UNCHANGED <<miscVars, reqVars, logVars>>

\* ---- the log buffer ----
\* bytes of the log buffer that one cell of storage stands for
CellBytes == 2
\* erase_size as line 275 reads it, in bytes
EraseBytes == EraseSize * CellBytes
\* LOG_MAGIC_SIZE and LOG_MAGIC (bootloader.h), sizeof(size_t)
LOG_MAGIC_SIZE == 1
LOG_MAGIC == <<76>>
SizeofSizeT == 1
\* erase_size-sizeof(size_t)-LOG_MAGIC_SIZE (lines 288, 291)
LogCapacity == EraseBytes - SizeofSizeT - LOG_MAGIC_SIZE
\* the log files: L bytes, numbered from 1, for every L up to one more
\* than the buffer takes
LogFiles == {[i \in 1..L |-> i] : L \in 0..(LogCapacity + 1)}
\* a byte of the buffer that was never assigned: its value is unknown
Unassigned == -2

\* line 288: fseek(f, -(LogCapacity), SEEK_END) on a file just opened: the
\* position it leaves, which is still 0 when the seek fails because it
\* would go before the beginning
FilePos(src) ==
    IF Len(src) - LogCapacity >= 0 THEN Len(src) - LogCapacity ELSE 0

\* line 290: fread(.., 1, n, f) at position p
Fread(src, p, n) == SubSeq(src, p + 1, Min({Len(src), p + n}))

\* LogBlock without the fseek of line 288: the file is read from its start
LogBlock_FromStart(src) ==
    LET d == Fread(src, 0, LogCapacity)
    IN  LOG_MAGIC \o <<Len(d)>> \o d
          \o [i \in 1..(LogCapacity - Len(d)) |-> Unassigned]

\* lines 283-293: the buffer log for the file src
LogBlock(src) ==
    LET d == Fread(src, FilePos(src), LogCapacity)
    IN  LOG_MAGIC \o <<Len(d)>> \o d
          \o [i \in 1..(LogCapacity - Len(d)) |-> Unassigned]

\* log_src when fopen (line 284) returned NULL
NoFile == <<-1>>

\* lines 282-299: fill a block with the log and write it; a failed write
\* does not return.  The result of fopen is not tested: with f == NULL the
\* calls of lines 288-294 have no defined result, the process dies or goes
\* on with a buffer of unknown content.  A buffer that was not written is
\* not kept.
W_log_write ==
    /\ wpc = "logwrite"
    /\ \/ \E src \in LogFiles :
             \E o \in MtdWriteData(Ctx, FullBlock("L")) :
                /\ Apply(o)
                /\ wpc' = IF o.ok THEN "verify" ELSE "logclose"
                /\ log_failed' = ~o.ok
                /\ log_src' = IF o.ok THEN src ELSE <<>>
                /\ log' = IF o.ok THEN LogBlock(src) ELSE <<>>
       \/ /\ log_src' = NoFile
          /\ log' = <<>>
          /\ \/ \E o \in MtdWriteData(Ctx, FullBlock("G")) :
                   /\ Apply(o)
                   /\ wpc' = IF o.ok THEN "verify" ELSE "logclose"
                   /\ log_failed' = ~o.ok
             \/ /\ wpc' = "crashed"
                /\ UNCHANGED <<ctxVars, log_failed>>
    /\ NoOutcome
    /\ UNCHANGED <<argVars, posVars, real_hdr, verify_pos, sess, pass,
                   header, wret>>
    /\ UNCHANGED <<miscVars, reqVars>>

\* line 298: mtd_write_close(write) after the failed log write, its result
\* unused; the function goes on with the closed session
W_log_close ==
    /\ wpc = "logclose"
    /\ \E o \in MtdWriteClose(Ctx) : Apply(o)
    /\ sess' = "closed"
    /\ wpc' = "verify"
    /\ NoOutcome
    /\ UNCHANGED <<argVars, posVars, histVars, pass, header, wret>>
    /\ UNCHANGED <<miscVars, reqVars, logVars>>

\* what mtd_erase_blocks may return on a session that was closed and
\* freed: anything
StaleOffsets == {-1} \cup {b * EraseSize : b \in 0..NBlocks}

\* the test of line 304 letting an offset short of image_start_pos pass
Misaligned_OnlyBeyond(r) == r > image_start_pos

\* line 304: the test mtd_erase_blocks(write, 0) != image_start_pos
Misaligned(r) == r # image_start_pos

\* lines 300-308: free(log);
\* if (mtd_erase_blocks(write, 0) != image_start_pos)
W_verify ==
    /\ wpc = "verify"
    /\ IF sess = "open"
         THEN \E o \in MtdEraseBlocks(Ctx) :
                 /\ Apply(o) /\ EraseOutcome(o)
                 /\ verify_pos' = ErasePos(o)
                 /\ wpc' = IF Misaligned(ErasePos(o))
                             THEN "abort" ELSE "close2"
         ELSE /\ UNCHANGED ctxVars
              /\ NoOutcome
              /\ \/ \E r \in StaleOffsets :
                       /\ verify_pos' = r
                       /\ wpc' = IF Misaligned(r) THEN "abort" ELSE "close2"
                 \/ wpc' = "crashed" /\ verify_pos' = verify_pos
    /\ log' = <<>> /\ log_src' = <<>>
    /\ UNCHANGED <<argVars, posVars, log_failed, real_hdr, sess, pass,
                   header, wret>>
    /\ UNCHANGED <<miscVars, reqVars>>

\* lines 310-316: if (mtd_write_close(write)) return -1; return 0
W_close2 ==
    /\ wpc = "close2"
    /\ IF sess = "open"
         THEN \E o \in MtdWriteClose(Ctx) :
                 /\ Apply(o) /\ Outcome(o)
                 /\ wpc' = "ret"
                 /\ wret' = IF o.ok THEN 0 ELSE -1
         ELSE /\ UNCHANGED ctxVars
              /\ NoOutcome
              /\ \/ wpc' = "ret" /\ wret' \in {0, -1}
                 \/ wpc' = "crashed" /\ wret' = wret
    /\ sess' = "closed"
    /\ UNCHANGED <<argVars, posVars, histVars, pass, header>>
    /\ UNCHANGED <<miscVars, reqVars, logVars>>

NextUpdate ==
    \/ W_find \/ W_open1 \/ W_zero_header \/ W_abort
    \/ W_log_erase \/ W_log_byte
    \/ W_image_erase \/ W_image_write
    \/ W_busy_erase \/ W_busy_write
    \/ W_fail_erase \/ W_fail_write
    \/ W_final_erase \/ W_close1 \/ W_open2 \/ W_real_header
    \/ W_log_info \/ W_log_align \/ W_log_write \/ W_log_close
    \/ W_verify \/ W_close2

\* the subsystem that is not in use
MiscIdle ==
    /\ ps = 1 /\ misc = Fill(MISC_PAGES, 0) /\ misc0 = misc
    /\ mop = "none" /\ mpc = "off"
    /\ min = Fill(RecordSize, 0) /\ mout = min /\ mout0 = min
    /\ data = <<>> /\ rd = 0 /\ rsess = "none" /\ wsess = "none"
    /\ mpend = <<>> /\ mret = "none" /\ lastSet = <<>> /\ calls = 0

UpdateIdle ==
    /\ bad = {} /\ disk = BlankDisk /\ disk0 = disk
    /\ update_length = 0 /\ bitmap_width = 0 /\ bitmap_height = 1
    /\ bitmap_bpp = 1 /\ busy_null = TRUE /\ fail_null = TRUE
    /\ have_log = FALSE /\ sess = "none" /\ pass = 0 /\ pos = 0
    /\ buf = <<>> /\ known = {} /\ wpc = "off" /\ header = ZeroHeader
    /\ image_start_pos = 0 /\ busy_start_pos = 0 /\ fail_start_pos = 0
    /\ wret = "none" /\ log_failed = FALSE /\ sentinel = FALSE
    /\ failed = FALSE /\ fail_step = "none" /\ real_hdr = FALSE
    /\ verify_pos = -2 /\ busy_req = -1 /\ fail_req = -1
    /\ log_src = <<>> /\ log = <<>>

\* the boot message store alone
InitMiscOnly == InitMisc /\ UpdateIdle
SpecMisc == InitMiscOnly /\ [][NextMisc]_vars

\* the update image writer alone
InitUpdateOnly == InitUpdate /\ MiscIdle
SpecUpdate == InitUpdateOnly /\ [][NextUpdate]_vars

\* ---- the update image writer alone, called with bitmaps of many sizes ----
\* largest bitmap_width and bitmap_height of these calls
WideWidth == 2
WideHeight == 2
\* values of bitmap_bpp of these calls
BppWide == {1, 8, 9, 16, 24, 32}

\* write_update_for_bootloader entered on a partition with no bad block
InitBitmaps ==
    /\ bad = {}
    /\ disk = StagedDisk(bad)
    /\ disk0 = disk
    /\ update_length = 1
    /\ bitmap_width \in 0..WideWidth
    /\ bitmap_height \in 0..WideHeight
    /\ bitmap_bpp \in BppWide
    /\ busy_null \in BOOLEAN
    /\ fail_null \in BOOLEAN
    /\ have_log \in BOOLEAN
    /\ sess = "none"
    /\ pass = 0
    /\ pos = 0
    /\ buf = <<>>
    /\ known = {}
    /\ wpc = "find"
    /\ header = ZeroHeader
    /\ image_start_pos = 0
    /\ busy_start_pos = 0
    /\ fail_start_pos = 0
    /\ wret = "none"
    /\ log_failed = FALSE
    /\ sentinel = FALSE
    /\ failed = FALSE
    /\ fail_step = "none"
    /\ real_hdr = FALSE
    /\ verify_pos = -2
    /\ busy_req = -1
    /\ fail_req = -1
    /\ log_src = <<>>
    /\ log = <<>>

InitBitmapsOnly == InitBitmaps /\ MiscIdle
SpecBitmaps == InitBitmapsOnly /\ [][NextUpdate]_vars

\* a caller uses one of the two subsystems: they share no state
Init == InitMiscOnly \/ InitUpdateOnly
Next == NextMisc \/ NextUpdate
Spec == Init /\ [][Next]_vars


\* ========================================================================
\* What the boot stage reads back from the cache partition
\* ========================================================================

\* the header region: the first good block of the partition
HdrBlock == IF Blocks \ bad = {} THEN 0 ELSE Min(Blocks \ bad)
DiskHdr == disk[HdrBlock][1]
\* the magic on storage: the one this call wrote, the one of the earlier
\* update, all zero
MagicNew == DiskHdr.k = "H"
MagicOld == DiskHdr.k = "O"
MagicZero == DiskHdr.k = "Z"

\* the n-th good block at or after block b (n from 0), -1 if there is none
NthGood(b, n) ==
    LET c == {g \in Blocks : /\ g >= b
                             /\ g \notin bad
                             /\ Cardinality({x \in b..(g - 1) : x \notin bad}) = n}
    IN  IF c = {} THEN -1 ELSE Min(c)

\* the cell that a reader skipping bad blocks finds j cells after offset off
CellAt(off, j) ==
    LET lin == (off % EraseSize) + j
        g == NthGood(off \div EraseSize, lin \div EraseSize)
    IN  IF g = -1 THEN Cell("E", 0) ELSE disk[g][(lin % EraseSize) + 1]

\* storage holds all len cells of the region of kind k at offset off
RegionWritten(off, len, k) ==
    len > 0 => /\ off >= 0
               /\ \A j \in 0..(len - 1) : CellAt(off, j) = Cell(k, j + 1)

\* every region the header hd records is completely on storage
RegionsWritten(hd) ==
    /\ RegionWritten(hd.image_offset, hd.image_length, "P")
    /\ RegionWritten(hd.busy_bitmap_offset, hd.busy_bitmap_length, "B")
    /\ RegionWritten(hd.fail_bitmap_offset, hd.fail_bitmap_length, "F")

\* the offset on storage of the first cell of the payload, -1 if it is
\* nowhere
PayloadPos ==
    LET at == {b * EraseSize + (j - 1) : b \in Blocks \ bad, j \in 1..EraseSize}
        hit == {a \in at : disk[a \div EraseSize][(a % EraseSize) + 1] = Cell("P", 1)}
    IN  IF hit = {} THEN -1 ELSE Min(hit)

Returned == wpc = "ret"
\* write_update_for_bootloader has returned 0 / -1
Succeeded == wpc = "ret" /\ wret = 0
Failed == wpc = "ret" /\ wret = -1
Ended == wpc \in {"ret", "crashed"}

\* ========================================================================
\* Claims
\* ========================================================================

\* C1: the header region on storage holds the update magic written by
\* write_update_for_bootloader only if the call returns 0: after a return
\* of -1 the magic on storage is not the valid magic.
C1_MagicOnlyOnSuccess == Failed => ~MagicNew

\* C2: at every point of write_update_for_bootloader (a crash may happen
\* there) the magic on storage is not that of the new header, or the
\* payload and both bitmaps are completely on storage at the offsets and
\* lengths the header on storage records.
C2_CrashConsistent == MagicNew => RegionsWritten(DiskHdr.h)

\* C3 as stated: from the (successful) write of the zero header until the
\* write of the real header in the second pass, the header region on
\* storage reads an all-zero magic.
C3_ZeroMagicThroughout == (header.magic /\ ~real_hdr) => MagicZero

\* C3 as amended: until the write of the real header in the second pass
\* the header region on storage reads an all-zero magic or nothing of the
\* partition has changed yet (the zero header reaches storage no later
\* than any payload, bitmap or log block), and it reads all-zero once the
\* first session has been closed successfully.
C3_ZeroMagicOnceFlushed ==
    ~real_hdr => /\ MagicZero \/ disk = disk0
                 /\ wpc \in {"open2", "rhdr"} => MagicZero

\* C3 witness: a staged update was on the partition, the payload of the
\* new one is on storage under a zero header, the real header not yet
\* written.
C3_Witness ==
    /\ wpc = "rhdr" /\ ~real_hdr
    /\ disk0[HdrBlock][1].k = "O"
    /\ MagicZero
    /\ update_length > 0 /\ PayloadPos >= 0

\* C4: a successful set_bootloader_message(r) followed, with no write in
\* between, by a successful get_bootloader_message yields a record equal
\* to r.
C4_RoundTrip ==
    (mop = "get" /\ mpc = "ret" /\ mret = 0 /\ lastSet # <<>>)
        => mout = lastSet[1]

\* C5: after a successful set_bootloader_message, whatever the page size,
\* pages 0 and 2 of the region on storage are what they were before the
\* call.
C5_OtherPagesPreserved ==
    (mop = "set" /\ mpc = "ret" /\ mret = 0)
        => /\ Len(misc) = ps * MISC_PAGES
           /\ Page(misc, 0) = Page(misc0, 0)
           /\ Page(misc, 2) = Page(misc0, 2)

\* C6: after a successful write_update_for_bootloader with a payload, the
\* payload offset in the header on storage is the offset at which the
\* first payload cell lies on storage.
C6_PayloadOffsetTrue ==
    (Succeeded /\ update_length > 0)
        => MagicNew /\ DiskHdr.h.image_offset = PayloadPos

\* C7: write_update_for_bootloader returns 0 only if the offset returned
\* by the erase-align of line 304 equals image_start_pos; when the two
\* differ the call returns -1.
C7_SuccessOnlyIfAligned ==
    /\ Succeeded => verify_pos = image_start_pos
    /\ (Returned /\ verify_pos # -2 /\ verify_pos # image_start_pos)
           => Failed

\* C7 witness: the second pass ended at an offset that is valid but not
\* image_start_pos, and the call returned -1.
C7_Witness ==
    /\ Failed /\ ~log_failed
    /\ verify_pos >= 0 /\ image_start_pos >= 0
    /\ verify_pos # image_start_pos

\* C8: when the write of the log block fails and no other primitive
\* fails, write_update_for_bootloader still returns 0 and the header,
\* payload and bitmaps are on storage.
C8_LogFailureHarmless ==
    (log_failed /\ ~failed /\ Ended)
        => /\ Succeeded
           /\ MagicNew /\ RegionsWritten(DiskHdr.h)

\* C9: once an erase-align has returned -1 write_update_for_bootloader
\* does not return 0, and the header on storage never records -1 as the
\* offset of the payload or of a bitmap.
C9_SentinelIsFatal ==
    /\ Succeeded => ~sentinel
    /\ MagicNew => /\ DiskHdr.h.image_offset # -1
                   /\ DiskHdr.h.busy_bitmap_offset # -1
                   /\ DiskHdr.h.fail_bitmap_offset # -1

\* C10: with a NULL busy or fail bitmap and no failing primitive the call
\* returns 0, the header records length 0 for the absent bitmap and the
\* offset of the region after it is a multiple of the erase-block size.
C10_NullBitmap ==
    ((busy_null \/ fail_null) /\ ~failed /\ ~log_failed /\ Ended)
        => /\ Succeeded
           /\ busy_null => /\ DiskHdr.h.busy_bitmap_length = 0
                           /\ DiskHdr.h.fail_bitmap_offset % EraseSize = 0
           /\ fail_null => DiskHdr.h.fail_bitmap_length = 0

\* ceil(b / 8): the least number of bytes that hold b bits
Ceil8(b) == CHOOSE n \in 0..b : 8 * n >= b /\ 8 * (n - 1) < b

\* ceil(bpp / 8) * width * height
BitmapBytes == Ceil8(bitmap_bpp) * bitmap_width * bitmap_height

\* number of cells of kind k the write session has accepted: those on
\* storage and those it still holds
CountCells(k) ==
    Cardinality({c \in Blocks \X (1..EraseSize) : disk[c[1]][c[2]].k = k})
      + Cardinality({j \in 1..Len(buf) : buf[j].k = k})

\* C11: for a supplied busy (fail) bitmap the length recorded in the header
\* is ceil(bpp / 8) * width * height, and when the write of the bitmap has
\* been accepted exactly that many bytes of it were written.
C11_BitmapLength ==
    /\ (wpc = "failerase" /\ ~busy_null)
          => /\ header.busy_bitmap_length = BitmapBytes
             /\ CountCells("B") = BitmapBytes
    /\ (wpc = "finerase" /\ ~fail_null)
          => /\ header.fail_bitmap_length = BitmapBytes
             /\ CountCells("F") = BitmapBytes
    /\ MagicNew
          => /\ ~busy_null => DiskHdr.h.busy_bitmap_length = BitmapBytes
             /\ ~fail_null => DiskHdr.h.fail_bitmap_length = BitmapBytes

\* C11 witness: a fail bitmap of 9 bits per pixel, 2 by 1, was accepted
\* after a busy bitmap of the same size: 4 bytes each.
C11_Witness ==
    /\ wpc = "finerase" /\ ~fail_null /\ ~busy_null
    /\ bitmap_bpp = 9 /\ bitmap_width = 2 /\ bitmap_height = 1
    /\ header.fail_bitmap_length = 4
    /\ CountCells("F") = 4 /\ CountCells("B") = 4

\* the steps whose failure the function tests: the writes of the zero
\* header, the log placeholder byte, the payload, the two bitmaps and the
\* real header, the two closes and the re-open
FatalSteps == {"zhdr", "logbyte", "imgwrite", "busywrite", "failwrite",
               "rhdr", "close1", "close2", "open2"}

\* C12: once one of these steps has failed the function is on its way to
\* return -1, the session that was open at the failing step still open
\* until the failure exit closes it; it never returns 0, and when it has
\* returned -1 no session is open.
C12_FailureIsFatal ==
    /\ fail_step \in FatalSteps
          => /\ wpc \in {"abort", "ret"}
             /\ wpc = "abort" => sess = "open"
             /\ wpc = "ret" => wret = -1 /\ sess = "closed"
    /\ Succeeded => fail_step = "none"

\* C12 witness: the write of the real header was short, the second
\* session was closed and the call returned -1.
C12_Witness ==
    /\ Failed /\ fail_step = "rhdr" /\ pass = 2 /\ sess = "closed"

\* C13: get_bootloader_message returns 0 exactly when the read session was
\* opened (the partition found, its page size known) and the read returned
\* page_size * 3 bytes, and -1 otherwise; a return of -1 leaves *out as it
\* was; the read session is open only between its open and the close of
\* line 63, so it is closed at every return that follows an open.
C13_GetFailures ==
    mop = "get" =>
        /\ rsess = "open" => mpc \in {"read", "rclose"}
        /\ mpc = "ret"
              => /\ mret \in {0, -1}
                 /\ mret = 0 <=> (rsess = "closed" /\ rd = MiscSize)
                 /\ mret = -1 => mout = mout0

\* C13 witness: the read came one byte short with no error signalled; the
\* session was closed, the call returned -1 and *out is untouched although
\* the command page on storage differs from it.
C13_Witness ==
    /\ mop = "get" /\ mpc = "ret" /\ mret = -1
    /\ rsess = "closed" /\ rd = MiscSize - 1
    /\ mout = mout0 /\ ps >= 2 /\ mout[1] # misc[CmdOff + 1]

\* C14: set_bootloader_message returns 0 only if the write primitive
\* accepted all page_size * 3 bytes and the close wrote them out, so that
\* storage holds the whole buffer; after a short write the function stands
\* at the close of line 112 with the session open, and every return that
\* follows the open of the write session, 0 or -1, finds it closed.
C14_SetWriteFailures ==
    mop = "set" =>
        /\ mpc = "wclose" => wsess = "open" /\ Len(mpend) = MiscSize
        /\ mpc = "wabort" => wsess = "open" /\ Len(mpend) < MiscSize
        /\ mpc = "ret"
              => /\ mret \in {0, -1}
                 /\ wsess # "open"
                 /\ mret = 0 => wsess = "closed" /\ misc = data

\* C14 witness: the write session was opened and the write or the close
\* failed after part of the buffer had reached storage; the call returned
\* -1 with the session closed.
C14_Witness ==
    /\ mop = "set" /\ mpc = "ret" /\ mret = -1
    /\ wsess = "closed" /\ rd = MiscSize
    /\ misc # data /\ misc # misc0

\* the first cell the first session accepted, when it accepted any
FirstWritten ==
    IF disk # disk0 THEN disk[HdrBlock][1] ELSE buf[1]

\* C15: the storage operations occur in the order Invalidated,
\* RegionsWritten, HeaderFinalized.  In the first session the first thing
\* written is the zero header; nothing with the valid magic is written
\* before the second session; when the function stands at the write of the
\* real header the first session has been closed, the payload and the
\* supplied bitmaps are on storage and the second session has accepted
\* nothing yet; the second session does nothing before it writes the real
\* header; the log block is written only after the real header.
C15_WriteOrder ==
    /\ (pass = 1 /\ (disk # disk0 \/ buf # <<>>))
          => FirstWritten = HeaderCell(ZeroHeader)
    /\ CountCells("H") > 0 => real_hdr
    /\ real_hdr => pass = 2
    /\ (pass = 2 /\ ~real_hdr) => wpc = "rhdr"
    /\ wpc = "rhdr"
          => /\ sess = "open" /\ pos = 0 /\ buf = <<>> /\ ~real_hdr
             /\ CountCells("P") = update_length
             /\ ~busy_null => CountCells("B") = bitmap_length
             /\ ~fail_null => CountCells("F") = bitmap_length
    /\ CountCells("L") > 0 => real_hdr

\* C15 witness: with a log, a payload and both bitmaps, all of them on
\* storage, the second session has written the real header and then the
\* log block.
C15_Witness ==
    /\ wpc = "verify" /\ pass = 2 /\ have_log /\ ~log_failed
    /\ MagicNew /\ CountCells("L") = EraseSize
    /\ update_length > 0 /\ CountCells("P") = update_length
    /\ ~busy_null /\ ~fail_null /\ bitmap_length > 0
    /\ CountCells("B") = bitmap_length /\ CountCells("F") = bitmap_length

\* C16: when no busy (fail) bitmap is supplied, the write issued for that
\* region asks for zero bytes, whatever the width, height and depth are.
C16_NullBitmapZeroWrite ==
    /\ (busy_null /\ busy_req # -1) => busy_req = 0
    /\ (fail_null /\ fail_req # -1) => fail_req = 0

\* the last n bytes of the sequence s
LastBytes(s, n) == SubSeq(s, Len(s) - n + 1, Len(s))

\* the write of the log block, made of a log file, has just succeeded
LogWritten ==
    /\ wpc = "verify" /\ have_log /\ ~log_failed
    /\ log # <<>>

\* C17: when the log file holds L bytes and the write of the log block
\* succeeds, the block written is erase_size bytes long: the log magic, a
\* count equal to min(L, erase_size - sizeof(size_t) - LOG_MAGIC_SIZE),
\* then that many bytes, the last ones of the file.
C17_LogBlock ==
    LogWritten =>
        LET n == Min({Len(log_src), LogCapacity})
            at == LOG_MAGIC_SIZE + SizeofSizeT
        IN  /\ Len(log) = EraseBytes
            /\ SubSeq(log, 1, LOG_MAGIC_SIZE) = LOG_MAGIC
            /\ log[LOG_MAGIC_SIZE + 1] = n
            /\ SubSeq(log, at + 1, at + n) = LastBytes(log_src, n)
            /\ CountCells("L") = EraseSize

\* C17 witness: the log file is one byte longer than the block takes; the
\* block was written and holds all but the first byte of the file.
C17_Witness ==
    /\ LogWritten
    /\ Len(log_src) = LogCapacity + 1
    /\ log[LOG_MAGIC_SIZE + 1] = LogCapacity
    /\ log[LOG_MAGIC_SIZE + SizeofSizeT + 1] = 2

\* C18: set_bootloader_message changes storage only after a complete
\* read.  The misc partition holds what it held before the call for as
\* long as no write session was opened; a write session is opened only
\* after the read session was opened, returned page_size * 3 bytes and was
\* closed; when the lookup, the open of the read session or the read
\* failed, the call returns -1 with no write session opened.
C18_SetReadsFirst ==
    mop = "set" =>
        /\ wsess = "none" => misc = misc0
        /\ wsess # "none" => rsess = "closed" /\ rd = MiscSize
        /\ (mpc = "ret" /\ (rsess = "none" \/ rd # MiscSize))
              => mret = -1 /\ wsess = "none" /\ misc = misc0

\* C18 witness: the read came one byte short; the call returned -1, no
\* write session was opened and the command page on storage is still
\* what it was, not the record passed in.
C18_Witness ==
    /\ mop = "set" /\ mpc = "ret" /\ mret = -1
    /\ rsess = "closed" /\ rd = MiscSize - 1
    /\ wsess = "none" /\ misc = misc0
    /\ min[1] # misc[CmdOff + 1]

\* the positions of write_update_for_bootloader at which the next call is
\* a write, an erase-align or a close on the session write
SessionCalls ==
    {"zhdr", "abort", "logerase", "logbyte", "imgerase", "imgwrite",
     "busyerase", "busywrite", "failerase", "failwrite", "finerase",
     "close1", "rhdr", "logalign", "logwrite", "logclose", "verify",
     "close2"}

\* C19: in get_bootloader_message, set_bootloader_message and
\* write_update_for_bootloader every session that was opened is closed
\* (once) when the function returns, at most one session is open at a
\* time, and no write, erase-align or close is called on a session that
\* has been closed already.
C19_SessionDiscipline ==
    /\ ~(rsess = "open" /\ wsess = "open")
    /\ mpc = "ret" => rsess # "open" /\ wsess # "open"
    /\ wpc \in SessionCalls => sess = "open"
    /\ (wpc = "ret" /\ pass > 0) => sess = "closed"

\* the offset at which the header block and, with a log, the reserved log
\* block end
ReservedEnd ==
    EraseSize * (NthGood(0, IF have_log THEN 1 ELSE 0) + 1)

\* the payload, busy bitmap and fail bitmap ranges the header hd records
\* lie behind the reserved blocks, in this order, and do not overlap
RegionsInOrder(hd) ==
    /\ hd.image_offset >= ReservedEnd
    /\ hd.image_offset + hd.image_length <= hd.busy_bitmap_offset
    /\ hd.busy_bitmap_offset + hd.busy_bitmap_length
          <= hd.fail_bitmap_offset

\* a step of the second session leaves every block at or beyond the
\* payload write-start position of the first pass as it is
SecondPassBelowPayload ==
    (pass = 2 /\ image_start_pos >= 0)
        => \A b \in Blocks :
              b * EraseSize >= image_start_pos => disk'[b] = disk[b]

\* C20: the second pass (real header, log block, final erase-align) never
\* writes at or beyond the payload write-start position of the first
\* pass, and after a successful call the payload, busy bitmap and fail
\* bitmap ranges recorded in the header on storage lie behind the header
\* block and the reserved log block, in that order, pairwise disjoint.
C20_RegionsApart ==
    /\ [][SecondPassBelowPayload]_vars
    /\ [](Succeeded => MagicNew /\ RegionsInOrder(DiskHdr.h))

====
